---- MODULE Spec2Model ----
(***************************************************************************)
(* Model of the fraud-call classification pipeline of fraud-detector-bot:   *)
(* the local pattern scorer (FraudAnalyzer.analyze_text), the two remote    *)
(* classifiers (LLMProvider._analyze_deepseek / _analyze_chatgpt), the      *)
(* fallback orchestrator (LLMProvider.analyze) and the merge step of        *)
(* analyze_message.                                                         *)
(*                                                                         *)
(* Text is a sequence of Unicode code points, so that substring matching    *)
(* and str.lower() are computed rather than assumed.  Confidence values     *)
(* are kept in hundredths (0.95 is 95), which is exact for every quotient   *)
(* the scorer computes (score/100, score/50, score/20).                     *)
(***************************************************************************)
EXTENDS Integers, Sequences, FiniteSets, TLC

VARIABLES
  deepseek_key,   \* LLMProvider.deepseek_key (config.DEEPSEEK_API_KEY)
  chatgpt_key,    \* LLMProvider.chatgpt_key  (config.CHATGPT_API_KEY)
  llm_provider,   \* the module-level provider: None until initialize_llm
  pc,             \* position of the analyze_message coroutine
  text,           \* update.message.text of the request in progress
  scores,         \* analyze_text: the per-category scores dict
  local_result,   \* analyze_message: local_result
  gpt_result,     \* analyze_message: gpt_result
  final_result,   \* analyze_message: final_result
  resp,           \* per provider: the HTTP exchange of this request
  outcome,        \* per provider: what its classify call did
  posts,          \* per provider: HTTP POSTs issued in this request
  inflight        \* providers whose POST is awaiting its response

vars == <<deepseek_key, chatgpt_key, llm_provider, pc, text, scores,
          local_result, gpt_result, final_result, resp, outcome, posts,
          inflight>>

(***************************************************************************)
(* FraudAnalyzer.FRAUD_PATTERNS, src/main.py:43-99, as code points.         *)
(***************************************************************************)
credit_keywords ==
  << <<1082,1088,1077,1076,1080,1090>>,   \* кредит
     <<1086,1076,1086,1073,1088,1077,1085>>,   \* одобрен
     <<1079,1072,1081,1084>>,   \* займ
     <<1076,1077,1085,1100,1075,1080>>,   \* деньги
     <<1073,1072,1085,1082>>,   \* банк
     <<1089,1095,1077,1090>>,   \* счет
     <<1088,1077,1082,1074,1080,1079,1080,1090,1099>>,   \* реквизиты
     <<1082,1072,1088,1090,1072>>,   \* карта
     <<1083,1080,1085,1080,1103>>,   \* линия
     <<1079,1072,1105,1084>> >>   \* заём

credit_urgency ==
  << <<1089,1088,1086,1095,1085,1086>>,   \* срочно
     <<1073,1099,1089,1090,1088,1086>>,   \* быстро
     <<1085,1077,1084,1077,1076,1083,1077,1085,1085,1086>>,   \* немедленно
     <<1087,1088,1103,1084,1086,32,1089,1077,1081,1095,1072,1089>>,   \* прямо сейчас
     <<1089,1088,1086,1082>> >>   \* срок

credit_red_flags ==
  << <<1085,1091,1078,1085,1099,32,1074,1072,1096,1080,32,1076,1072,1085,1085,1099,1077>>,   \* нужны ваши данные
     <<1076,1072,1081,1090,1077,32,1082,1086,1076,1099>>,   \* дайте коды
     <<1086,1090,1087,1088,1072,1074,1100,1090,1077,32,1089,1084,1089>>,   \* отправьте смс
     <<1087,1086,1076,1090,1074,1077,1088,1076,1080,1090,1077,32,1083,1080,1095,1085,1086,1089,1090,1100>>,   \* подтвердите личность
     <<1074,1074,1077,1089,1090,1080,32,1087,1080,1085>>,   \* ввести пин
     <<1089,1082,1086,1087,1080,1088,1091,1081,32,1082,1086,1076>> >>   \* скопируй код

sim_swap_keywords ==
  << <<1085,1086,1084,1077,1088>>,   \* номер
     <<1089,1080,1084,1082,1072>>,   \* симка
     <<1086,1087,1077,1088,1072,1090,1086,1088>>,   \* оператор
     <<1080,1076,1077,1085,1090,1080,1092,1080,1082,1072,1094,1080,1103>>,   \* идентификация
     <<1087,1077,1088,1077,1093,1086,1076>>,   \* переход
     <<1084,1077,1075,1072,1092,1086,1085>>,   \* мегафон
     <<1084,1090,1089>>,   \* мтс
     <<1073,1080,1083,1072,1081,1085>>,   \* билайн
     <<1090,1077,1083,1077,50>> >>   \* теле2

sim_swap_urgency ==
  << <<1079,1072,1073,1083,1086,1082,1080,1088,1086,1074,1072,1085>>,   \* заблокирован
     <<1079,1072,1082,1088,1099,1083,1080>>,   \* закрыли
     <<1087,1088,1086,1073,1083,1077,1084,1072>>,   \* проблема
     <<1074,1085,1080,1084,1072,1085,1080,1077>> >>   \* внимание

sim_swap_red_flags ==
  << <<1087,1077,1088,1077,1074,1077,1089,1090,1080,32,1085,1086,1084,1077,1088>>,   \* перевести номер
     <<1085,1086,1074,1072,1103,32,1089,1080,1084,1082,1072>>,   \* новая симка
     <<1087,1077,1088,1077,1093,1086,1076,1080,32,1085,1072,32,1085,1072,1089>>,   \* переходи на нас
     <<1087,1077,1088,1077,1079,1072,1075,1088,1091,1079,1080,32,1090,1077,1083,1077,1092,1086,1085>>,   \* перезагрузи телефон
     <<1090,1072,1088,1080,1092,32,1080,1079,1084,1077,1085,1080,1090,1089,1103>> >>   \* тариф изменится

investment_keywords ==
  << <<1080,1085,1074,1077,1089,1090,1080,1094,1080,1080>>,   \* инвестиции
     <<1087,1088,1080,1073,1099,1083,1100>>,   \* прибыль
     <<1076,1086,1093,1086,1076>>,   \* доход
     <<1072,1082,1094,1080,1080>>,   \* акции
     <<1082,1088,1080,1087,1090,1086>>,   \* крипто
     <<1073,1080,1090,1086,1082>>,   \* биток
     <<101,116,104,101,114,101,117,109>>,   \* ethereum
     <<1090,1088,1077,1081,1076,1080,1085,1075>>,   \* трейдинг
     <<1092,1086,1088,1077,1082,1089>> >>   \* форекс

investment_urgency ==
  << <<1090,1086,1083,1100,1082,1086,32,1089,1077,1075,1086,1076,1085,1103>>,   \* только сегодня
     <<1087,1086,1089,1083,1077,1076,1085,1103,1103,32,1074,1086,1079,1084,1086,1078,1085,1086,1089,1090,1100>>,   \* последняя возможность
     <<1086,1075,1088,1072,1085,1080,1095,1077,1085,1086>>,   \* ограничено
     <<1079,1072,1074,1090,1088,1072,32,1087,1086,1076,1086,1088,1086,1078,1072,1077,1090>> >>   \* завтра подорожает

investment_red_flags ==
  << <<1075,1072,1088,1072,1085,1090,1080,1088,1086,1074,1072,1085,1085,1099,1081,32,1076,1086,1093,1086,1076>>,   \* гарантированный доход
     <<49,48,48,37,32,1087,1088,1080,1073,1099,1083,1100>>,   \* 100% прибыль
     <<1086,1090,1082,1091,1087,1086,1082,32,1075,1072,1088,1072,1085,1090,1080,1088,1086,1074,1072,1085>>,   \* откупок гарантирован
     <<1074,1085,1077,1089,1080,1090,1077,32,1076,1077,1087,1086,1079,1080,1090>>,   \* внесите депозит
     <<1080,1085,1074,1077,1089,1090,1080,1088,1091,1081,32,1089,1077,1081,1095,1072,1089>> >>   \* инвестируй сейчас

utility_keywords ==
  << <<1082,1074,1072,1088,1090,1080,1088,1072>>,   \* квартира
     <<1082,1086,1084,1084,1091,1085,1072,1083,1100,1085,1099,1077>>,   \* коммунальные
     <<1101,1083,1077,1082,1090,1088,1080,1095,1077,1089,1090,1074,1086>>,   \* электричество
     <<1074,1086,1076,1072>>,   \* вода
     <<1075,1072,1079>>,   \* газ
     <<1080,1085,1090,1077,1088,1085,1077,1090>>,   \* интернет
     <<1089,1095,1077,1090>>,   \* счет
     <<1086,1087,1083,1072,1090,1072>>,   \* оплата
     <<1046,1050,1061>> >>   \* ЖКХ

utility_urgency ==
  << <<1087,1077,1088,1077,1082,1088,1086,1102,1090>>,   \* перекроют
     <<1086,1090,1082,1083,1102,1095,1072,1090>>,   \* отключат
     <<1089,1088,1086,1082>>,   \* срок
     <<1079,1072,1076,1086,1083,1078,1077,1085,1085,1086,1089,1090,1100>>,   \* задолженность
     <<1085,1077,1084,1077,1076,1083,1077,1085,1085,1086>> >>   \* немедленно

utility_red_flags ==
  << <<1087,1086,1087,1086,1083,1085,1080,1090,1077,32,1089,1095,1077,1090>>,   \* пополните счет
     <<1087,1077,1088,1077,1074,1077,1076,1080,1090,1077,32,1076,1077,1085,1100,1075,1080>>,   \* переведите деньги
     <<1089,1088,1086,1082,32,1080,1089,1090,1077,1082,1072,1077,1090>>,   \* срок истекает
     <<1076,1077,1085,1100,1075,1080,32,1085,1091,1078,1085,1099,32,1089,1077,1075,1086,1076,1085,1103>>,   \* деньги нужны сегодня
     <<1080,1085,1072,1095,1077,32,1086,1090,1082,1083,1102,1095,1080,1084>> >>   \* иначе отключим

lottery_keywords ==
  << <<1074,1099,1080,1075,1088,1072,1083>>,   \* выиграл
     <<1087,1088,1080,1079>>,   \* приз
     <<1083,1086,1090,1077,1088,1077,1103>>,   \* лотерея
     <<1087,1086,1076,1072,1088,1086,1082>>,   \* подарок
     <<1074,1077,1079,1105,1090>>,   \* везёт
     <<1091,1076,1072,1095,1072>>,   \* удача
     <<1084,1080,1083,1083,1080,1086,1085>>,   \* миллион
     <<1085,1072,1075,1088,1072,1076,1072>>,   \* награда
     <<1087,1086,1083,1091,1095,1080,1090,1100>> >>   \* получить

lottery_urgency ==
  << <<1089,1087,1077,1096,1080>>,   \* спеши
     <<1089,1082,1086,1088,1086,32,1080,1089,1090,1077,1095,1077,1090>>,   \* скоро истечет
     <<1089,1088,1086,1082,32,1086,1075,1088,1072,1085,1080,1095,1077,1085>> >>   \* срок ограничен

lottery_red_flags ==
  << <<1086,1090,1087,1088,1072,1074,1100,32,1082,1086,1084,1080,1089,1089,1080,1102>>,   \* отправь комиссию
     <<1074,1085,1077,1089,1080,32,1076,1077,1085,1100,1075,1080>>,   \* внеси деньги
     <<1087,1086,1076,1090,1074,1077,1088,1076,1080,32,1091,1095,1072,1089,1090,1080,1077>>,   \* подтверди участие
     <<1087,1077,1088,1077,1074,1077,1076,1080>>,   \* переведи
     <<1072,1082,1090,1080,1074,1080,1088,1091,1081,32,1087,1088,1080,1079>> >>   \* активируй приз

FRAUD_PATTERNS ==
  [ credit |-> [keywords |-> credit_keywords, urgency |-> credit_urgency, red_flags |-> credit_red_flags],
    sim_swap |-> [keywords |-> sim_swap_keywords, urgency |-> sim_swap_urgency, red_flags |-> sim_swap_red_flags],
    investment |-> [keywords |-> investment_keywords, urgency |-> investment_urgency, red_flags |-> investment_red_flags],
    utility |-> [keywords |-> utility_keywords, urgency |-> utility_urgency, red_flags |-> utility_red_flags],
    lottery |-> [keywords |-> lottery_keywords, urgency |-> lottery_urgency, red_flags |-> lottery_red_flags] ]

\* Iteration order of the FRAUD_PATTERNS dict (insertion order).
CategoryOrder == << "credit", "sim_swap", "investment", "utility", "lottery" >>

(***************************************************************************)
(* Transcripts: the example call of /start and /example, and short pieces   *)
(* of calls that hit the rule table in different ways.                      *)
(***************************************************************************)
\* Привет, это служба банка. У вас одобрена кредитная линия на 500000 рублей. Срочно нужны коды с вашей карты для активации.
Example1 ==
  <<1055,1088,1080,1074,1077,1090,44,32,1101,1090,1086,32,1089,1083,1091,1078,
    1073,1072,32,1073,1072,1085,1082,1072,46,32,1059,32,1074,1072,1089,32,
    1086,1076,1086,1073,1088,1077,1085,1072,32,1082,1088,1077,1076,1080,1090,1085,
    1072,1103,32,1083,1080,1085,1080,1103,32,1085,1072,32,53,48,48,48,
    48,48,32,1088,1091,1073,1083,1077,1081,46,32,1057,1088,1086,1095,1085,
    1086,32,1085,1091,1078,1085,1099,32,1082,1086,1076,1099,32,1089,32,1074,
    1072,1096,1077,1081,32,1082,1072,1088,1090,1099,32,1076,1083,1103,32,1072,
    1082,1090,1080,1074,1072,1094,1080,1080,46 >>

\* оплатите счет
FragBill ==
  <<1086,1087,1083,1072,1090,1080,1090,1077,32,1089,1095,1077,1090 >>

\* переведите деньги
FragTransfer ==
  <<1087,1077,1088,1077,1074,1077,1076,1080,1090,1077,32,1076,1077,1085,1100,1075,
    1080 >>

\* нужны ваши данные, дайте коды, отправьте смс, подтвердите личность, ввести пин, скопируй код
FragSixFlags ==
  <<1085,1091,1078,1085,1099,32,1074,1072,1096,1080,32,1076,1072,1085,1085,1099,
    1077,44,32,1076,1072,1081,1090,1077,32,1082,1086,1076,1099,44,32,1086,
    1090,1087,1088,1072,1074,1100,1090,1077,32,1089,1084,1089,44,32,1087,1086,
    1076,1090,1074,1077,1088,1076,1080,1090,1077,32,1083,1080,1095,1085,1086,1089,
    1090,1100,44,32,1074,1074,1077,1089,1090,1080,32,1087,1080,1085,44,32,
    1089,1082,1086,1087,1080,1088,1091,1081,32,1082,1086,1076 >>

\* СРОЧНО верните кредит
FragUrgent ==
  <<1057,1056,1054,1063,1053,1054,32,1074,1077,1088,1085,1080,1090,1077,32,1082,
    1088,1077,1076,1080,1090 >>

\* долг за ЖКХ
FragHousing ==
  <<1076,1086,1083,1075,32,1079,1072,32,1046,1050,1061 >>

\* добрый день, как ваши дела
FragFiller ==
  <<1076,1086,1073,1088,1099,1081,32,1076,1077,1085,1100,44,32,1082,1072,1082,
    32,1074,1072,1096,1080,32,1076,1077,1083,1072 >>

\* ваш номер заблокирован, нужна новая симка
FragSim ==
  <<1074,1072,1096,32,1085,1086,1084,1077,1088,32,1079,1072,1073,1083,1086,1082,
    1080,1088,1086,1074,1072,1085,44,32,1085,1091,1078,1085,1072,32,1085,1086,
    1074,1072,1103,32,1089,1080,1084,1082,1072 >>

\* Вы выиграли приз
FragPrize ==
  <<1042,1099,32,1074,1099,1080,1075,1088,1072,1083,1080,32,1087,1088,1080,1079 >>

\* кредит одобрен займ деньги банк счет реквизиты карта линия заём срочно быстро немедленно прямо сейчас срок
FragAllCredit ==
  <<1082,1088,1077,1076,1080,1090,32,1086,1076,1086,1073,1088,1077,1085,32,1079,
    1072,1081,1084,32,1076,1077,1085,1100,1075,1080,32,1073,1072,1085,1082,32,
    1089,1095,1077,1090,32,1088,1077,1082,1074,1080,1079,1080,1090,1099,32,1082,
    1072,1088,1090,1072,32,1083,1080,1085,1080,1103,32,1079,1072,1105,1084,32,
    1089,1088,1086,1095,1085,1086,32,1073,1099,1089,1090,1088,1086,32,1085,1077,
    1084,1077,1076,1083,1077,1085,1085,1086,32,1087,1088,1103,1084,1086,32,1089,
    1077,1081,1095,1072,1089,32,1089,1088,1086,1082 >>

Fragments ==
  << Example1, FragBill, FragTransfer, FragSixFlags, FragUrgent, FragHousing,
     FragFiller, FragSim, FragPrize, FragAllCredit >>

(***************************************************************************)
(* Bounds of the model.                                                    *)
(***************************************************************************)
\* Most pieces (of Fragments) joined into one transcript given to the scorer.
MaxFragments == 3

\* Most pieces joined into one chat message handled by analyze_message.
MaxMsgFragments == 1

\* Most pieces joined into the transcript whose local result is merged.
MaxMergeFragments == 2

\* config.MIN_TEXT_LENGTH
MIN_TEXT_LENGTH == 20

RECURSIVE Join(_)
Join(fs) ==
  IF fs = << >> THEN << >>
  ELSE IF Len(fs) = 1 THEN fs[1]
  ELSE fs[1] \o <<32>> \o Join(Tail(fs))

\* All transcripts of at most n pieces, separated by one space.
TranscriptsOf(n) ==
  UNION { { Join([i \in 1..k |-> Fragments[ix[i]]]) :
              ix \in [1..k -> 1..Len(Fragments)] } : k \in 0..n }

(***************************************************************************)
(* Python values.  A value carries its type, as the code branches on it    *)
(* (isinstance, truthiness, `in`, subscripting).                           *)
(***************************************************************************)
None       == [t |-> "None", v |-> 0]
PyDict(r)  == [t |-> "dict", v |-> r]
PyList(s)  == [t |-> "list", v |-> s]
PyStr(s)   == [t |-> "str",  v |-> s]
PyInt(n)   == [t |-> "int",  v |-> n]

EmptyDict  == PyDict([k \in {} |-> None])

\* bool(x) as `if x:` computes it
Truthy(x) ==
  CASE x.t = "None" -> FALSE
    [] x.t = "dict" -> DOMAIN x.v # {}
    [] x.t = "list" -> Len(x.v) > 0
    [] x.t = "str"  -> x.v # ""
    [] x.t = "int"  -> x.v # 0
    [] OTHER        -> TRUE

Min(a, b) == IF a <= b THEN a ELSE b

\* num/den as a number of hundredths (exact: den is 100, 50 or 20)
Hundredths(num, den) == (num * 100) \div den

(***************************************************************************)
(* FraudAnalyzer.analyze_text                                              *)
(***************************************************************************)
\* str.lower() on one character: Latin A-Z, Cyrillic U+0410..U+042F and
\* U+0400..U+040F have a lowercase form; every other character of the
\* transcripts (lowercase letters, digits, punctuation) maps to itself.
LowerChar(c) ==
  IF c \in 65..90 THEN c + 32
  ELSE IF c \in 1040..1071 THEN c + 32
  ELSE IF c \in 1024..1039 THEN c + 80
  ELSE c

lower(s) == [i \in 1..Len(s) |-> LowerChar(s[i])]

\* `p in t` on strings: p occurs in t as a substring
IsSubstring(p, t) ==
  \E i \in 0..(Len(t) - Len(p)) : \A j \in 1..Len(p) : t[i + j] = p[j]

\* the patterns of ps found in text_lower, in table order
Matched(ps, text_lower) == SelectSeq(ps, LAMBDA p : IsSubstring(p, text_lower))

\* CategoryScore with a red flag worth 5 points
CategoryScore_FlagWorthFive(patterns, text_lower) ==
  LET matched_flags == Matched(patterns.red_flags, text_lower)
  IN  [ score |-> Len(Matched(patterns.keywords, text_lower)) * 1
                  + Len(Matched(patterns.urgency, text_lower)) * 2
                  + Len(matched_flags) * 5,
        flags |-> matched_flags ]

\* one iteration of the loop over FRAUD_PATTERNS.items()
CategoryScore(patterns, text_lower) ==
  LET matched_flags == Matched(patterns.red_flags, text_lower)
  IN  [ score |-> Len(Matched(patterns.keywords, text_lower)) * 1
                  + Len(Matched(patterns.urgency, text_lower)) * 2
                  + Len(matched_flags) * 3,
        flags |-> matched_flags ]

\* the scores dict after the loop
Scores(txt) ==
  LET text_lower == lower(txt)
  IN  [ fraud_type \in DOMAIN FRAUD_PATTERNS |->
          CategoryScore(FRAUD_PATTERNS[fraud_type], text_lower) ]

\* BestType that lets a later category of equal score win
BestType_LastMaximal(sc) ==
  LET best[i \in 1..Len(CategoryOrder)] ==
        IF i = 1 THEN CategoryOrder[1]
        ELSE IF sc[CategoryOrder[i]].score >= sc[best[i - 1]].score
             THEN CategoryOrder[i]
             ELSE best[i - 1]
  IN  best[Len(CategoryOrder)]

\* max(scores, key=...): the first key, in iteration order, of greatest score
BestType(sc) ==
  LET best[i \in 1..Len(CategoryOrder)] ==
        IF i = 1 THEN CategoryOrder[1]
        ELSE IF sc[CategoryOrder[i]].score > sc[best[i - 1]].score
             THEN CategoryOrder[i]
             ELSE best[i - 1]
  IN  best[Len(CategoryOrder)]

\* RiskOf with the divisor of the low band used in the medium band
RiskOf_MediumOverTwenty(best_score) ==
  IF best_score >= 40
    THEN [risk_level |-> "high",
          confidence |-> Min(95, Hundredths(best_score, 100))]
  ELSE IF best_score >= 20
    THEN [risk_level |-> "medium", confidence |-> Hundredths(best_score, 20)]
  ELSE IF best_score >= 5
    THEN [risk_level |-> "low", confidence |-> Hundredths(best_score, 20)]
  ELSE [risk_level |-> "none", confidence |-> 0]

\* risk_level and confidence from best_score
RiskOf(best_score) ==
  IF best_score >= 40
    THEN [risk_level |-> "high",
          confidence |-> Min(95, Hundredths(best_score, 100))]
  ELSE IF best_score >= 20
    THEN [risk_level |-> "medium",
          confidence |-> Min(80, Hundredths(best_score, 50))]
  ELSE IF best_score >= 5
    THEN [risk_level |-> "low", confidence |-> Hundredths(best_score, 20)]
  ELSE [risk_level |-> "none", confidence |-> 0]

\* the returned dict, from the scores dict
LocalResult(sc) ==
  LET best_type  == BestType(sc)
      best_score == sc[best_type].score
      risk       == RiskOf(best_score)
      flags      == sc[best_type].flags
  IN  PyDict([ fraud_type  |-> IF best_score > 0 THEN best_type ELSE "unknown",
               risk_level  |-> risk.risk_level,
               confidence  |-> risk.confidence,
               red_flags   |-> SubSeq(flags, 1, Min(5, Len(flags))),
               local_score |-> best_score,
               method      |-> "local_patterns" ])

analyze_text(txt) == LocalResult(Scores(txt))

Providers == {"deepseek", "chatgpt"}

\* The state shared by every specification before a request is handled.
Quiet ==
  /\ llm_provider = None
  /\ scores = None
  /\ local_result = None
  /\ gpt_result = None
  /\ final_result = None
  /\ resp = [p \in Providers |-> None]
  /\ outcome = [p \in Providers |-> "not_called"]
  /\ posts = [p \in Providers |-> 0]
  /\ inflight = {}

(***************************************************************************)
(* The scorer alone: analyze_text applied to each transcript.              *)
(***************************************************************************)
ScorerInit ==
  /\ Quiet
  /\ deepseek_key = ""
  /\ chatgpt_key = ""
  /\ pc = "scorer_call"
  /\ text \in TranscriptsOf(MaxFragments)

ScoreText ==
  /\ pc = "scorer_call"
  /\ scores' = Scores(text)
  /\ local_result' = LocalResult(scores')
  /\ pc' = "scorer_return"
  /\ UNCHANGED <<deepseek_key, chatgpt_key, llm_provider, text, gpt_result,
                 final_result, resp, outcome, posts, inflight>>

ScorerNext == ScoreText

SpecScorer == ScorerInit /\ [][ScorerNext]_vars

(***************************************************************************)
(* Python operations the remote classifiers apply to the decoded response. *)
(* A block of code ends by returning a value or by raising an exception.   *)
(***************************************************************************)
Return(x) == [kind |-> "return", val |-> x, exc |-> ""]
Raise(e)  == [kind |-> "raise", val |-> None, exc |-> e]

\* `key in c` for a str key: a key of a dict, an element of a list;
\* None and numbers are not iterable.  (No response of the model is a bare
\* JSON string, the one other container.)
In(key, c) ==
  CASE c.t = "dict" -> Return(key \in DOMAIN c.v)
    [] c.t = "list" -> Return(\E i \in 1..Len(c.v) : c.v[i] = PyStr(key))
    [] OTHER        -> Raise("TypeError")

\* `c[key]` for a str key: only a dict can be subscripted by a str
GetItem(c, key) ==
  CASE c.t = "dict" -> IF key \in DOMAIN c.v THEN Return(c.v[key])
                       ELSE Raise("KeyError")
    [] OTHER        -> Raise("TypeError")

\* `c[key] = val`: only a dict takes a str key
SetItem(c, key, val) ==
  CASE c.t = "dict" ->
         Return(PyDict([k \in DOMAIN c.v \cup {key} |->
                          IF k = key THEN val ELSE c.v[k]]))
    [] OTHER        -> Raise("TypeError")

(***************************************************************************)
(* The texts a provider may put in message.content, and json.loads on them.*)
(***************************************************************************)
VerdictText == "{\"fraud_type\": \"credit\", \"risk_level\": \"high\", \"red_flags\": [\"pin\"], \"recommendation\": \"hang up\", \"confidence\": 0.9}"
LegitText   == "{\"fraud_type\": \"legitimate\", \"risk_level\": \"low\", \"red_flags\": [], \"confidence\": 0.15}"
EmptyObjectText == "{}"
ArrayText   == "[1]"
ProseText   == "This looks like a scam."

Verdict ==
  PyDict([ fraud_type     |-> "credit",
           risk_level     |-> "high",
           red_flags      |-> << <<112, 105, 110>> >>,
           recommendation |-> "hang up",
           confidence     |-> 90 ])

Legit ==
  PyDict([ fraud_type |-> "legitimate",
           risk_level |-> "low",
           red_flags  |-> << >>,
           confidence |-> 15 ])

\* json.loads(s): the decoded value, JSONDecodeError on text that is not
\* JSON, TypeError on a value that is not a str.
json_loads(s) ==
  IF s.t # "str" THEN Raise("TypeError")
  ELSE CASE s.v = VerdictText     -> Return(Verdict)
         [] s.v = LegitText       -> Return(Legit)
         [] s.v = EmptyObjectText -> Return(EmptyDict)
         [] s.v = ArrayText       -> Return(PyList(<<PyInt(1)>>))
         [] OTHER                 -> Raise("JSONDecodeError")

(***************************************************************************)
(* HTTP exchanges.  net is what the transport did; status and body are     *)
(* read only when net = "ok".  body is the value resp.json() decodes, or    *)
(* Undecodable when the body is not JSON.                                  *)
(***************************************************************************)
Undecodable == [t |-> "undecodable", v |-> 0]

\* {"choices": [{"message": {"content": content}}]}
Completion(content) ==
  PyDict([choices |-> PyList(<< PyDict([message |->
                                   PyDict([content |-> content])]) >>)])

Bodies ==
  << Completion(PyStr(VerdictText)),
     Completion(PyStr(LegitText)),
     Completion(PyStr(EmptyObjectText)),
     Completion(PyStr(ArrayText)),
     Completion(PyStr(ProseText)),
     Completion(None),
     PyDict([choices |-> PyList(<< PyDict([message |-> EmptyDict]) >>)]),
     PyDict([choices |-> PyList(<< EmptyDict >>)]),
     PyDict([choices |-> PyList(<< PyStr("message") >>)]),
     PyDict([choices |-> PyList(<< >>)]),
     PyDict([choices |-> None]),
     PyDict([error |-> PyStr("rate limited")]),
     PyList(<< PyStr("choices") >>),
     None,
     Undecodable >>

Exchange(net, status, body) == [net |-> net, status |-> status, body |-> body]

Responses ==
  << Exchange("connection_failed", 0, None),
     Exchange("timeout", 0, None),
     Exchange("ok", 500, PyDict([error |-> PyStr("internal")])),
     Exchange("ok", 401, Undecodable) >>
  \o [i \in 1..Len(Bodies) |-> Exchange("ok", 200, Bodies[i])]

(***************************************************************************)
(* LLMProvider._analyze_deepseek and _analyze_chatgpt.  The two methods    *)
(* differ in the key, the URL and the model name only.                     *)
(***************************************************************************)
\* the body of the inner try: validate the shape, decode message.content
ParseCompletion(result) ==
  LET has_choices == In("choices", result)
  IN
  IF has_choices.kind = "raise" THEN has_choices
  ELSE IF ~has_choices.val THEN Return(None)
  ELSE
  LET choices == GetItem(result, "choices")
  IN
  IF choices.kind = "raise" THEN choices
  ELSE IF choices.val.t # "list" THEN Return(None)
  ELSE IF Len(choices.val.v) = 0 THEN Return(None)
  ELSE
  LET choice == choices.val                \* choice = result["choices"]
      has_message == In("message", choice)
  IN
  IF has_message.kind = "raise" THEN has_message
  ELSE IF ~has_message.val THEN Return(None)
  ELSE
  LET message == GetItem(choice, "message")
  IN
  IF message.kind = "raise" THEN message
  ELSE
  LET has_content == In("content", message.val)
  IN
  IF has_content.kind = "raise" THEN has_content
  ELSE IF ~has_content.val THEN Return(None)
  ELSE
  LET response_text == GetItem(message.val, "content")
  IN
  IF response_text.kind = "raise" THEN response_text
  ELSE json_loads(response_text.val)

\* the inner try with its two except clauses
InnerTry(result) ==
  LET r == ParseCompletion(result)
  IN  IF r.kind = "raise"
         /\ r.exc \in {"JSONDecodeError", "KeyError", "IndexError", "TypeError"}
      THEN Return(None)
      ELSE r

\* session.post(...) and what follows inside `async with`
Request(x) ==
  IF x.net = "connection_failed" THEN Raise("ClientConnectorError")
  ELSE IF x.net = "timeout" THEN Raise("TimeoutError")
  ELSE IF x.status # 200 THEN Return(None)
  ELSE IF x.body.t = "undecodable" THEN Raise("ContentTypeError")
  ELSE InnerTry(x.body)

\* OuterTry with the `except Exception` clause left out
OuterTry_TimeoutOnly(r) ==
  IF r.kind = "raise" /\ r.exc = "TimeoutError" THEN Return(None) ELSE r

\* the outer try: except asyncio.TimeoutError, except Exception
OuterTry(r) == IF r.kind = "raise" THEN Return(None) ELSE r

_analyze_deepseek(x) == OuterTry(Request(x))

_analyze_chatgpt(x) == OuterTry(Request(x))

(***************************************************************************)
(* LLMProvider.analyze and analyze_message.  The handler is a coroutine:   *)
(* it runs from one await to the next, and an action is one such run.      *)
(* The calls to the chat platform (reply_text, edit_text) are taken to     *)
(* succeed.                                                                *)
(***************************************************************************)
ApiKeys == {"", "sk-key"}

\* `if self.deepseek_key:` / `if self.chatgpt_key:`
Configured(key) == key # ""

\* SecondStep without its key check
SecondStep_NoKeyCheck == "chatgpt"

\* step 2 of analyze: the fallback provider, or "none" for `return None`
SecondStep == IF Configured(chatgpt_key) THEN "chatgpt" ELSE "none"

\* FirstStep with the priority of the two providers swapped
FirstStep_ChatgptFirst ==
  IF Configured(chatgpt_key) THEN "chatgpt"
  ELSE IF Configured(deepseek_key) THEN "deepseek" ELSE "none"

\* step 1 of analyze: deepseek when it has a key, else on to step 2
FirstStep == IF Configured(deepseek_key) THEN "deepseek" ELSE SecondStep

\* AfterDeepseekFailed with a retry of deepseek
AfterDeepseekFailed_Retry == "deepseek"

\* what analyze does once _analyze_deepseek has returned without a result
AfterDeepseekFailed == SecondStep

\* what analyze does once _analyze_chatgpt has returned without a result
AfterChatgptFailed == "none"

AwaitOf(p) == IF p = "deepseek" THEN "await_deepseek" ELSE "await_chatgpt"

\* Merge that takes gpt_result whether or not it is there
Merge_AlwaysRemote(local, gpt) == gpt

\* Merge that keeps the red flags the local scorer found
Merge_Blend(local, gpt) ==
  IF Truthy(gpt)
  THEN PyDict([k \in DOMAIN gpt.v \cup {"red_flags"} |->
                 IF k = "red_flags" THEN local.v.red_flags ELSE gpt.v[k]])
  ELSE local

\* step 3 of analyze_message: the final verdict
Merge(local, gpt) == IF Truthy(gpt) THEN gpt ELSE local

\* final_result.get("provider", "local")
ProviderOf(final) ==
  IF "provider" \in DOMAIN final.v THEN final.v.provider ELSE "local"

\* analyze goes on with step nxt: it issues that provider's POST and
\* suspends, or returns None to analyze_message, which merges and replies.
\* oc is the record of the attempts made so far.
Proceed(nxt, oc) ==
  IF nxt = "none"
  THEN /\ gpt_result' = None
       /\ final_result' = Merge(local_result, None)
       /\ pc' = "done"
       /\ posts' = posts
       /\ outcome' = oc
       /\ inflight' = inflight \ {p \in Providers : pc = AwaitOf(p)}
  ELSE /\ pc' = AwaitOf(nxt)
       /\ posts' = [posts EXCEPT ![nxt] = @ + 1]
       /\ outcome' = [oc EXCEPT ![nxt] = "pending"]
       /\ inflight' = (inflight \ {p \in Providers : pc = AwaitOf(p)}) \cup {nxt}
       /\ UNCHANGED <<gpt_result, final_result>>

\* analyze got `result` from provider p's method and goes on from there
Resume(p, result, onFailure) ==
  IF result.kind = "raise"
  THEN \* the exception leaves analyze; analyze_message's except replies
       /\ outcome' = [outcome EXCEPT ![p] = "raised"]
       /\ pc' = "error"
       /\ inflight' = inflight \ {p}
       /\ UNCHANGED <<gpt_result, final_result, posts>>
  ELSE IF Truthy(result.val)
  THEN LET tagged == SetItem(result.val, "provider", p)
       IN  /\ outcome' = [outcome EXCEPT ![p] = "succeeded"]
           /\ inflight' = inflight \ {p}
           /\ posts' = posts
           /\ IF tagged.kind = "raise"
              THEN /\ pc' = "error"
                   /\ UNCHANGED <<gpt_result, final_result>>
              ELSE /\ gpt_result' = tagged.val
                   /\ final_result' = Merge(local_result, tagged.val)
                   /\ pc' = "done"
  ELSE Proceed(onFailure, [outcome EXCEPT ![p] = "failed"])

Init ==
  /\ Quiet
  /\ deepseek_key \in ApiKeys
  /\ chatgpt_key \in ApiKeys
  /\ pc = "boot"
  /\ text = << >>

\* post_init: builds the provider from the configured keys
initialize_llm ==
  /\ pc = "boot"
  /\ llm_provider' = PyDict([deepseek_key |-> deepseek_key,
                             chatgpt_key  |-> chatgpt_key])
  /\ pc' = "idle"
  /\ UNCHANGED <<deepseek_key, chatgpt_key, text, scores, local_result,
                 gpt_result, final_result, resp, outcome, posts, inflight>>

\* analyze_message from its start to the first reply: the length check
ReceiveMessage ==
  /\ pc \in {"idle", "rejected", "done", "error"}
  /\ \E txt \in TranscriptsOf(MaxMsgFragments) :
       /\ text' = txt
       /\ pc' = IF Len(txt) < MIN_TEXT_LENGTH THEN "rejected" ELSE "local"
  /\ scores' = None
  /\ local_result' = None
  /\ gpt_result' = None
  /\ final_result' = None
  /\ resp' = [p \in Providers |-> None]
  /\ outcome' = [p \in Providers |-> "not_called"]
  /\ posts' = [p \in Providers |-> 0]
  /\ inflight' = {}
  /\ UNCHANGED <<deepseek_key, chatgpt_key, llm_provider>>

\* step 1 of analyze_message: the local analysis, then the status edit
LocalAnalysis ==
  /\ pc = "local"
  /\ scores' = Scores(text)
  /\ local_result' = LocalResult(scores')
  /\ pc' = "remote"
  /\ UNCHANGED <<deepseek_key, chatgpt_key, llm_provider, text, gpt_result,
                 final_result, resp, outcome, posts, inflight>>

\* step 2 of analyze_message: llm_provider.analyze up to its first POST
StartAnalyze ==
  /\ pc = "remote"
  /\ IF Truthy(llm_provider)
     THEN Proceed(FirstStep, outcome)
     ELSE Proceed("none", outcome)
  /\ UNCHANGED <<deepseek_key, chatgpt_key, llm_provider, text, scores,
                 local_result, resp>>

\* the deepseek exchange ends; analyze resumes after _analyze_deepseek
DeepseekReturns ==
  /\ pc = "await_deepseek"
  /\ \E i \in 1..Len(Responses) :
       /\ resp' = [resp EXCEPT !["deepseek"] = Responses[i]]
       /\ Resume("deepseek", _analyze_deepseek(Responses[i]), AfterDeepseekFailed)
  /\ UNCHANGED <<deepseek_key, chatgpt_key, llm_provider, text, scores,
                 local_result>>

\* the chatgpt exchange ends; analyze resumes after _analyze_chatgpt
ChatgptReturns ==
  /\ pc = "await_chatgpt"
  /\ \E i \in 1..Len(Responses) :
       /\ resp' = [resp EXCEPT !["chatgpt"] = Responses[i]]
       /\ Resume("chatgpt", _analyze_chatgpt(Responses[i]), AfterChatgptFailed)
  /\ UNCHANGED <<deepseek_key, chatgpt_key, llm_provider, text, scores,
                 local_result>>

Next ==
  \/ initialize_llm
  \/ ReceiveMessage
  \/ LocalAnalysis
  \/ StartAnalyze
  \/ DeepseekReturns
  \/ ChatgptReturns

Spec == Init /\ [][Next]_vars

(***************************************************************************)
(* The merge step alone: Merge applied to a local result and to what       *)
(* analyze may hand back (None, or a decoded verdict tagged with the       *)
(* provider that gave it).                                                 *)
(***************************************************************************)
RemoteResults ==
  {None} \cup { SetItem(d, "provider", p).val : d \in {Verdict, Legit},
                                                 p \in Providers }

MergeInit ==
  /\ llm_provider = None
  /\ resp = [p \in Providers |-> None]
  /\ outcome = [p \in Providers |-> "not_called"]
  /\ posts = [p \in Providers |-> 0]
  /\ inflight = {}
  /\ deepseek_key = ""
  /\ chatgpt_key = ""
  /\ pc = "merge_call"
  /\ text \in TranscriptsOf(MaxMergeFragments)
  /\ scores = Scores(text)
  /\ local_result = LocalResult(scores)
  /\ gpt_result \in RemoteResults
  /\ final_result = None

ApplyMerge ==
  /\ pc = "merge_call"
  /\ final_result' = Merge(local_result, gpt_result)
  /\ pc' = "merge_return"
  /\ UNCHANGED <<deepseek_key, chatgpt_key, llm_provider, text, scores,
                 local_result, gpt_result, resp, outcome, posts, inflight>>

MergeNext == ApplyMerge

SpecMerge == MergeInit /\ [][MergeNext]_vars

(***************************************************************************)
(* Properties.                                                             *)
(***************************************************************************)
KeyOf(p) == IF p = "deepseek" THEN deepseek_key ELSE chatgpt_key

\* provider p's classify call of this request has returned or raised
Completed(p) == outcome[p] \in {"succeeded", "failed", "raised"}

\* The exchange is a 200 whose body has the documented shape: choices is a
\* non-empty list, its first element has message.content, and that content
\* decodes to a JSON object.
WellShaped(x) ==
  /\ x.net = "ok"
  /\ x.status = 200
  /\ x.body.t = "dict"
  /\ "choices" \in DOMAIN x.body.v
  /\ x.body.v.choices.t = "list"
  /\ Len(x.body.v.choices.v) > 0
  /\ LET first == x.body.v.choices.v[1]
     IN  /\ first.t = "dict"
         /\ "message" \in DOMAIN first.v
         /\ first.v.message.t = "dict"
         /\ "content" \in DOMAIN first.v.message.v
         /\ first.v.message.v.content.t = "str"
         /\ LET d == json_loads(first.v.message.v.content)
            IN  d.kind = "return" /\ d.val.t = "dict"

\* the object a well-shaped exchange carries
DecodedObject(x) == json_loads(x.body.v.choices.v[1].message.v.content).val

\* C1: for each provider, a 200 response of the expected shape makes
\* classify succeed, the result being the decoded object with its provider
\* field set to the provider that answered.
C1_WellShapedSucceeds ==
  \A p \in Providers :
    (Completed(p) /\ WellShaped(resp[p])) =>
       /\ outcome[p] = "succeeded"
       /\ gpt_result = SetItem(DecodedObject(resp[p]), "provider", p).val

\* C2: chatgpt is invoked only if deepseek is unconfigured or deepseek's
\* attempt of the same request has already ended in failure; a deepseek
\* success means no chatgpt call; the two are never in flight together.
C2_FallbackOrder ==
  /\ posts["chatgpt"] > 0 =>
       (~Configured(deepseek_key) \/ outcome["deepseek"] = "failed")
  /\ outcome["chatgpt"] # "not_called" =>
       (~Configured(deepseek_key) \/ outcome["deepseek"] = "failed")
  /\ outcome["deepseek"] = "succeeded" => posts["chatgpt"] = 0
  /\ Cardinality(inflight) <= 1

\* chatgpt is in flight after a failed deepseek attempt
C2_Witness ==
  /\ Configured(deepseek_key)
  /\ outcome["deepseek"] = "failed"
  /\ inflight = {"chatgpt"}
  /\ posts["chatgpt"] = 1

\* C3: when every configured provider's attempt has failed, analyze returns
\* None and the final verdict is the local scorer's result.
C3_Exhaustion ==
  (/\ pc = "done"
   /\ \A p \in Providers : Configured(KeyOf(p)) => outcome[p] = "failed")
  => /\ gpt_result = None
     /\ final_result = local_result
     /\ local_result.t = "dict"
     /\ local_result.v.method = "local_patterns"

\* Example 3: deepseek failed, chatgpt answered with an empty choices list
C3_Witness ==
  /\ pc = "done"
  /\ Configured(deepseek_key) /\ Configured(chatgpt_key)
  /\ outcome["deepseek"] = "failed" /\ outcome["chatgpt"] = "failed"
  /\ resp["chatgpt"] = Exchange("ok", 200, PyDict([choices |-> PyList(<< >>)]))
  /\ final_result = local_result

\* C4: every failure of a remote attempt becomes "this provider failed" and
\* none leaves classify or analyze as an exception; after a failure of
\* deepseek, chatgpt is called when it is configured.
C4_FailuresContained ==
  /\ pc # "error"
  /\ \A p \in Providers :
       /\ outcome[p] # "raised"
       /\ (Completed(p) /\ ~WellShaped(resp[p])) => outcome[p] = "failed"
  /\ (outcome["deepseek"] = "failed" /\ Configured(chatgpt_key)) =>
       (posts["chatgpt"] = 1 /\ outcome["chatgpt"] # "not_called")

\* Example 2: deepseek answered HTTP 500, then chatgpt was called
C4_Witness ==
  /\ outcome["deepseek"] = "failed"
  /\ resp["deepseek"].net = "ok" /\ resp["deepseek"].status = 500
  /\ posts["chatgpt"] = 1
  /\ pc = "await_chatgpt"

\* C5: no request is ever sent to a provider without a key; with no key at
\* all analyze returns None without a network call and the final verdict
\* is the local result, with no provider field.
C5_UnconfiguredSkipped ==
  /\ \A p \in Providers :
       ~Configured(KeyOf(p)) =>
          (posts[p] = 0 /\ outcome[p] = "not_called" /\ p \notin inflight)
  /\ (pc = "done" /\ \A p \in Providers : ~Configured(KeyOf(p))) =>
       /\ gpt_result = None
       /\ final_result = local_result
       /\ "provider" \notin DOMAIN final_result.v
       /\ ProviderOf(final_result) = "local"

\* Example 4: a request handled with no key configured
C5_Witness ==
  /\ pc = "done"
  /\ ~Configured(deepseek_key) /\ ~Configured(chatgpt_key)
  /\ posts = [p \in Providers |-> 0]
  /\ final_result = local_result

\* C10: each provider is attempted at most once per request, each attempt
\* is exactly one POST, and at most one attempt succeeds.
C10_AtMostOnce ==
  /\ \A p \in Providers :
       /\ posts[p] <= 1
       /\ (outcome[p] # "not_called") <=> (posts[p] = 1)
  /\ posts["deepseek"] + posts["chatgpt"] <= 2
  /\ Cardinality({p \in Providers : outcome[p] = "succeeded"}) <= 1

\* both providers were tried, once each, and both failed
C10_Witness ==
  /\ pc = "done"
  /\ outcome = [p \in Providers |-> "failed"]
  /\ posts = [p \in Providers |-> 1]

\* d.get(f): the field, or None when d has no such key
Field(d, f) == IF f \in DOMAIN d.v THEN d.v[f] ELSE None

VerdictFields ==
  {"fraud_type", "risk_level", "confidence", "red_flags", "recommendation"}

\* C6: the merge overrides and does not blend.  When analyze returned a
\* result, the final verdict is that result, every field of it and no key
\* of the local result; when it returned None, the final verdict is the
\* local result unchanged.
C6_OverrideNotBlend ==
  pc = "merge_return" =>
    IF gpt_result # None
    THEN /\ final_result = gpt_result
         /\ \A f \in VerdictFields :
              /\ (f \in DOMAIN final_result.v) <=> (f \in DOMAIN gpt_result.v)
              /\ f \in DOMAIN gpt_result.v =>
                   final_result.v[f] = gpt_result.v[f]
         /\ DOMAIN final_result.v \cap {"local_score", "method"} = {}
    ELSE final_result = local_result

\* a remote verdict that disagrees with the local one in every field wins
C6_Witness ==
  /\ pc = "merge_return"
  /\ gpt_result # None
  /\ final_result = gpt_result
  /\ ProviderOf(final_result) = "chatgpt"
  /\ local_result.v.fraud_type = "sim_swap"
  /\ final_result.v.fraud_type = "legitimate"
  /\ local_result.v.red_flags # << >>
  /\ final_result.v.red_flags = << >>

\* the greatest score of the scores dict
MaxScore(sc) ==
  CHOOSE m \in {sc[c].score : c \in DOMAIN sc} :
    \A c \in DOMAIN sc : sc[c].score <= m

\* C7: for the example call of /example the local scorer answers credit,
\* high, confidence at least 0.5, and a non-empty list of red flags with a
\* red-flag phrase of the credit category in it.
C7_ExampleIsHighRisk ==
  (pc = "scorer_return" /\ text = Example1) =>
     /\ local_result.v.fraud_type = "credit"
     /\ local_result.v.risk_level = "high"
     /\ local_result.v.confidence >= 50
     /\ local_result.v.red_flags # << >>
     /\ \E i \in 1..Len(local_result.v.red_flags) :
          \E j \in 1..Len(credit_red_flags) :
            local_result.v.red_flags[i] = credit_red_flags[j]

\* C8: risk level and confidence are the documented function of the
\* winning score s (confidence c in hundredths): s >= 40 high with
\* c = min(95, s); 20 <= s < 40 medium with c = min(80, 2s); 5 <= s < 20
\* low with c = 5s; s < 5 none with c = 0; so c lies in 0..100.
C8_RiskOfScore ==
  pc = "scorer_return" =>
    LET s == MaxScore(scores)
        r == local_result.v
    IN  /\ r.local_score = s
        /\ s >= 40 =>
             (r.risk_level = "high"
               /\ 100 * r.confidence = Min(95 * 100, 100 * s))
        /\ (20 <= s /\ s < 40) =>
             (r.risk_level = "medium"
               /\ 50 * r.confidence = Min(80 * 50, 100 * s))
        /\ (5 <= s /\ s < 20) =>
             (r.risk_level = "low" /\ 20 * r.confidence = 100 * s)
        /\ s < 5 => (r.risk_level = "none" /\ r.confidence = 0)
        /\ 0 <= r.confidence /\ r.confidence <= 100

\* a transcript of the medium band: score 21, confidence 0.42
C8_Witness ==
  /\ pc = "scorer_return"
  /\ MaxScore(scores) = 21
  /\ local_result.v.risk_level = "medium"
  /\ local_result.v.confidence = 42

\* C9: the fraud type is the first category, in declaration order, whose
\* score is the greatest; when that score is 0 the fraud type is unknown
\* and the risk level none.
C9_FirstMaximalCategory ==
  pc = "scorer_return" =>
    LET s == MaxScore(scores)
        first == CHOOSE i \in 1..Len(CategoryOrder) :
                   /\ scores[CategoryOrder[i]].score = s
                   /\ \A j \in 1..(i - 1) : scores[CategoryOrder[j]].score < s
    IN  IF s = 0
        THEN /\ local_result.v.fraud_type = "unknown"
             /\ local_result.v.risk_level = "none"
        ELSE local_result.v.fraud_type = CategoryOrder[first]

\* utility and lottery tie at the top with a positive score: utility wins
C9_Witness ==
  /\ pc = "scorer_return"
  /\ scores["utility"].score = MaxScore(scores)
  /\ scores["lottery"].score = MaxScore(scores)
  /\ MaxScore(scores) > 0
  /\ local_result.v.fraud_type = "utility"

\* how many patterns of ps occur in txt as it was sent (no normalization)
OccurIn(ps, txt) == Cardinality({i \in 1..Len(ps) : IsSubstring(ps[i], txt)})

\* the part of a category's score that its keywords account for: the
\* score less what the urgency and red-flag loops added
KeywordPoints(c) ==
  scores[c].score
    - 2 * Len(Matched(FRAUD_PATTERNS[c].urgency, lower(text)))
    - 3 * Len(Matched(FRAUD_PATTERNS[c].red_flags, lower(text)))

\* C11: every configured keyword of every category that the transcript
\* contains as a substring adds 1 to that category's score, the utility
\* keyword of the housing services (U+0416 U+041A U+0425) included.
C11_EveryKeywordCounts ==
  pc = "scorer_return" =>
    \A c \in DOMAIN FRAUD_PATTERNS :
      KeywordPoints(c) >= OccurIn(FRAUD_PATTERNS[c].keywords, text)

\* the first n elements of a sequence, all of it when it is shorter
FirstN(q, n) == SubSeq(q, 1, Min(n, Len(q)))

\* C12: the winning category's score is keyword hits + 2 * urgency hits
\* + 3 * (number of red flags kept), the kept red flags being the first 5
\* matched in table order, and the result's red_flags is that kept list:
\* the reported score and the reported red flags agree.
C12_ScoreAgreesWithRedFlags ==
  pc = "scorer_return" =>
    LET patterns == FRAUD_PATTERNS[BestType(scores)]
        text_lower == lower(text)
        keywordHits == Len(Matched(patterns.keywords, text_lower))
        urgencyHits == Len(Matched(patterns.urgency, text_lower))
        matchedRedFlags == FirstN(Matched(patterns.red_flags, text_lower), 5)
    IN  /\ local_result.v.red_flags = matchedRedFlags
        /\ local_result.v.local_score =
             keywordHits * 1 + urgencyHits * 2 + 3 * Len(matchedRedFlags)

\* the score of a transcript that matches every pattern of category c
TableMax(c) ==
  Len(FRAUD_PATTERNS[c].keywords) * 1
    + Len(FRAUD_PATTERNS[c].urgency) * 2
    + Len(FRAUD_PATTERNS[c].red_flags) * 3

\* C13: with the rule table as declared no category scores more than 38
\* (credit: 10 keywords, 5 urgency words, 6 red flags), so the local risk
\* level is none, low or medium, never high, and the confidence is at
\* most 0.95.
C13_NeverHigh ==
  /\ \A c \in DOMAIN FRAUD_PATTERNS : TableMax(c) <= 38
  /\ TableMax("credit") = 38
  /\ pc = "scorer_return" =>
       /\ \A c \in DOMAIN FRAUD_PATTERNS :
            scores[c].score <= TableMax(c)
       /\ local_result.v.local_score <= 38
       /\ local_result.v.risk_level \in {"none", "low", "medium"}
       /\ local_result.v.confidence <= 95

\* a transcript with every credit pattern in it: score 38, medium, 0.76
C13_Witness ==
  /\ pc = "scorer_return"
  /\ scores["credit"].score = 38
  /\ local_result.v.local_score = 38
  /\ local_result.v.risk_level = "medium"
  /\ local_result.v.confidence = 76
====
